---- MODULE Spec2Model ----
(***************************************************************************)
(* Project Euler 61, cyclical figurate numbers (src/main.py).              *)
(*                                                                         *)
(* main() is modelled statement by statement: the generator loop that      *)
(* fills figurate_numbers, then the recursive search_seqs() with an        *)
(* explicit call stack.                                                    *)
(*                                                                         *)
(* Number representation.  The quadratic coefficients are the floats       *)
(* 0.5, 1.0, 1.5, ... ; every float the program computes from them is a    *)
(* multiple of 1/2 (or the square root of one), so a float v is kept as    *)
(* the integer 2*v ("halves").  sqrt is kept exact: of a perfect square it *)
(* is the integer root (IEEE sqrt is correctly rounded), of any other      *)
(* argument it is an irrational strictly between two integers, and for     *)
(* the magnitudes used here the double result lies on the same side of     *)
(* every integer as the real one.                                          *)
(***************************************************************************)
EXTENDS Integers, Sequences, FiniteSets, TLC

VARIABLES
    pc,                       \* position in main()
    figurate_numbers,         \* dict: polygon type -> defaultdict(prefix -> set of (x, m, n))
    m,                        \* loop variable of the generator (line 138), 0 before the loop
    n,                        \* loop variable of range(n_min, n_max) (line 142)
    n_max,                    \* exclusive end of that range (line 141)
    curr_seq,                 \* list under construction (line 155)
    remaining_polygon_types,  \* set of unused types (line 156)
    stack,                    \* activation records of search_seqs, innermost last
    ret,                      \* value returned by the call that returned last
    type_order,               \* iteration order of a set of types in this run
    choice_order,             \* iteration order of a set of candidates in this run
    revisits,                 \* number of times an iterator yielded a type a second time
    q_in,                     \* arguments of a stand-alone call of a quadratic helper
    q_out                     \* its result

vars == <<pc, figurate_numbers, m, n, n_max, curr_seq, remaining_polygon_types,
          stack, ret, type_order, choice_order, revisits, q_in, q_out>>

genVars    == <<figurate_numbers, m, n, n_max>>
searchVars == <<curr_seq, remaining_polygon_types, stack, ret>>
orderVars  == <<type_order, choice_order>>
qVars      == <<q_in, q_out>>

----------------------------------------------------------------------------
(* Bounds of the model *)

\* how often, in one run, a set iterator may yield an element again after the
\* loop body has discarded and re-added it
MaxRevisit == 1
\* indices scanned by the brute-force reference enumeration
BruteMax == 150
\* argument ranges of the stand-alone calls of the quadratic helpers (halves)
MaxQA == 6
MaxQB == 4
MaxQC == 12

----------------------------------------------------------------------------
(* Constants of the program *)

PolygonTypes == 3..8

\* (a, b) per polygon type, in halves: (0.5, 0.5) is <<1, 1>>
FIGURATE_QUADRATIC_PARAMETERS ==
    [t \in PolygonTypes |->
        CASE t = 3 -> <<1, 1>>
          [] t = 4 -> <<2, 0>>
          [] t = 5 -> <<3, -1>>
          [] t = 6 -> <<4, -2>>
          [] t = 7 -> <<5, -3>>
          [] t = 8 -> <<6, -4>>]

x_lower_bound == 1000
x_upper_bound == 10000

----------------------------------------------------------------------------
(* Arithmetic helpers *)

Min(i, j) == IF i <= j THEN i ELSE j

RECURSIVE SqrtSearch(_, _, _)
\* largest s in lo..hi with s*s <= d, given lo*lo <= d < (hi+1)*(hi+1)
SqrtSearch(lo, hi, d) ==
    IF lo = hi THEN lo
    ELSE LET mid == (lo + hi + 1) \div 2
         IN  IF mid * mid <= d THEN SqrtSearch(mid, hi, d)
                               ELSE SqrtSearch(lo, mid - 1, d)

RECURSIVE SqrtAbove(_, _)
\* a power of two h >= 1 with h*h > d
SqrtAbove(h, d) == IF h * h > d THEN h ELSE SqrtAbove(2 * h, d)

\* floor of the real square root of d >= 0
SqrtFloor(d) == SqrtSearch(0, SqrtAbove(1, d) - 1, d)

\* four times the discriminant b**2 - 4*a*c, for a, b, c in halves
Disc4(a, b, c) == b * b - 4 * a * c

\* ceil((-b + sqrt(b**2 - 4*a*c)) / (2*a)), a > 0, arguments in halves:
\* the quotient equals (-b + sqrt(Disc4)) / (2*a) with the halves as integers
quadratic_lower_limit(a, b, c) ==
    LET d   == Disc4(a, b, c)
        s   == SqrtFloor(d)
        num == s - b
    IN  IF s * s = d
          THEN IF num % (2 * a) = 0 THEN num \div (2 * a)
                                    ELSE (num \div (2 * a)) + 1
          ELSE (num \div (2 * a)) + 1

\* floor((-b + sqrt(b**2 - 4*a*c)) / (2*a)) + 1
quadratic_upper_limit(a, b, c) ==
    LET d   == Disc4(a, b, c)
        s   == SqrtFloor(d)
        num == s - b
    IN  (num \div (2 * a)) + 1

\* variant: rounds every value up to the following integer
RoundUp(h) == (h \div 2) + 1

\* Python round() of the float h/2: nearest integer, ties to even
Round(h) ==
    LET q == h \div 2
    IN  IF h % 2 = 0 THEN q
        ELSE IF q % 2 = 0 THEN q ELSE q + 1

\* round(a * n ** 2 + b * n) for polygon type t
Value(t, k) ==
    LET ab == FIGURATE_QUADRATIC_PARAMETERS[t]
    IN  Round(ab[1] * k * k + ab[2] * k)

RECURSIVE Str(_)
\* str(x) for an integer x >= 0: its decimal digits, most significant first
Str(x) == IF x < 10 THEN <<x>> ELSE Append(Str(x \div 10), x % 10)

\* s[:2]
Prefix2(s) == SubSeq(s, 1, Min(2, Len(s)))

\* s[2:]
From2(s) == IF Len(s) <= 2 THEN <<>> ELSE SubSeq(s, 3, Len(s))

----------------------------------------------------------------------------
(* Dictionaries *)

EmptyDict == <<>>

DictSet(d, k, v) == [x \in (DOMAIN d) \cup {k} |-> IF x = k THEN v ELSE d[x]]

\* d[k] of a defaultdict(lambda: set()): the dict after the lookup
DefaultDictTouch(d, k) == IF k \in DOMAIN d THEN d ELSE DictSet(d, k, {})

\* d[k].add(e) on a defaultdict(lambda: set())
DefaultDictAdd(d, k, e) == DictSet(d, k, (IF k \in DOMAIN d THEN d[k] ELSE {}) \cup {e})

\* set.union(*d.values())
UnionValues(d) == UNION {d[k] : k \in DOMAIN d}

----------------------------------------------------------------------------
(* main(): the generator, lines 134-144 *)

Idle == [a |-> 0, b |-> 0, c |-> 0, f |-> "none"]

Init ==
    /\ pc = "gen_type"
    /\ figurate_numbers = EmptyDict
    /\ m = 0
    /\ n = 0
    /\ n_max = 0
    /\ curr_seq = <<>>
    /\ remaining_polygon_types = {}
    /\ stack = <<>>
    /\ ret = FALSE
    /\ type_order = "none"
    /\ choice_order = "none"
    /\ revisits = 0
    /\ q_in = Idle
    /\ q_out = 0

\* the key that follows k in FIGURATE_QUADRATIC_PARAMETERS.items()
NextType(k) == IF k = 0 THEN 3 ELSE k + 1

\* lines 138-141: next polygon type, fresh defaultdict, range limits
GenType ==
    /\ pc = "gen_type"
    /\ NextType(m) \in PolygonTypes
    /\ LET t  == NextType(m)
           ab == FIGURATE_QUADRATIC_PARAMETERS[t]
       IN  /\ m' = t
           /\ figurate_numbers' = DictSet(figurate_numbers, t, EmptyDict)
           /\ n' = quadratic_lower_limit(ab[1], ab[2], -(2 * x_lower_bound))
           /\ n_max' = quadratic_upper_limit(ab[1], ab[2], -(2 * x_upper_bound))
    /\ pc' = "gen_n"
    /\ UNCHANGED <<searchVars, orderVars, revisits, qVars>>

\* lines 142-144: one iteration of the inner loop
GenNumber ==
    /\ pc = "gen_n"
    /\ n < n_max
    /\ LET x == Value(m, n)
       IN  figurate_numbers' =
             DictSet(figurate_numbers, m,
                     DefaultDictAdd(figurate_numbers[m], Prefix2(Str(x)), <<x, m, n>>))
    /\ n' = n + 1
    /\ UNCHANGED <<pc, m, n_max, searchVars, orderVars, revisits, qVars>>

\* line 142: range exhausted, back to line 138
GenTypeDone ==
    /\ pc = "gen_n"
    /\ n >= n_max
    /\ pc' = "gen_type"
    /\ UNCHANGED <<genVars, searchVars, orderVars, revisits, qVars>>

----------------------------------------------------------------------------
(* main(): the search, lines 155-191 *)

\* An activation record of search_seqs.
\*   fpc        position in the body
\*   ts         what the name ts is bound to at line 167: the fresh set {8}
\*              ("seed") or the object remaining_polygon_types itself
\*   si_used    size of ts when the iterator of line 168 was created
\*   visited    the types that iterator has yielded
\*   t          loop variable of line 168
\*   choices    the set bound at lines 169-172
\*   tried      the candidates the iterator of line 175 has yielded
\*   entry_seq, entry_rem   curr_seq and remaining_polygon_types at entry
NewFrame(seq, rem) ==
    [fpc |-> "entry", ts |-> "none", si_used |-> 0, visited |-> {}, t |-> 0,
     choices |-> {}, tried |-> {}, entry_seq |-> seq, entry_rem |-> rem]

Top == stack[Len(stack)]

Searching == pc = "search" /\ stack # <<>>

At(label) == Searching /\ Top.fpc = label

SetTop(f) == [stack EXCEPT ![Len(stack)] = f]

\* variant: the empty sequence is seeded with every remaining type
TsSetAnySeed(f) == remaining_polygon_types

\* the set the loop of line 168 iterates: ts is an alias, not a copy
TsSet(f) == IF f.ts = "seed" THEN {8} ELSE remaining_polygon_types

\* the element a set of types yields first
FirstType(S) ==
    IF type_order = "asc" THEN CHOOSE t \in S : \A u \in S : t <= u
                          ELSE CHOOSE t \in S : \A u \in S : t >= u

\* the element a set of candidates yields first
FirstChoice(S) ==
    IF choice_order = "asc" THEN CHOOSE e \in S : \A g \in S : e[1] <= g[1]
                            ELSE CHOOSE e \in S : \A g \in S : e[1] >= g[1]

\* variant: a complete sequence is accepted without the closing test
ClosesUnchecked(seq) == TRUE

\* line 163: str(curr_seq[-1][0])[2:] == str(curr_seq[0][0])[:2]
Closes(seq) == From2(Str(seq[Len(seq)][1])) = Prefix2(Str(seq[1][1]))

\* lines 169-172, the key looked up when curr_seq is not empty
LookupKey(seq) == From2(Str(seq[Len(seq)][1]))

\* variant: the candidates are not restricted to the matching prefix
ChoicesAnyPrefix(fn, seq, t) == UnionValues(fn[t])

\* lines 169-172: the candidates of type t
Choices(fn, seq, t) ==
    IF Len(seq) = 0 THEN UnionValues(fn[t])
    ELSE IF LookupKey(seq) \in DOMAIN fn[t] THEN fn[t][LookupKey(seq)] ELSE {}

\* lines 169-172: figurate_numbers after the lookup (a defaultdict creates the
\* entry of a missing key)
AfterLookup(fn, seq, t) ==
    IF Len(seq) = 0 THEN fn
    ELSE DictSet(fn, t, DefaultDictTouch(fn[t], LookupKey(seq)))

\* variant: the type is not taken out
AfterDiscardNoop(rem, t) == rem

\* line 174: remaining_polygon_types.discard(t)
AfterDiscard(rem, t) == rem \ {t}

\* variant: the type is not put back
AfterAddNoop(rem, t) == rem

\* line 183: remaining_polygon_types.add(t)
AfterAdd(rem, t) == rem \cup {t}

\* line 176: curr_seq.append(choice)
AfterAppend(seq, choice) == Append(seq, choice)

\* variant: the failed candidate is not removed
AfterPopNoop(seq) == seq

\* line 180: curr_seq.pop()
AfterPop(seq) == SubSeq(seq, 1, Len(seq) - 1)

\* a return statement of search_seqs
Return(v) ==
    /\ stack' = SubSeq(stack, 1, Len(stack) - 1)
    /\ ret' = v

\* lines 155-156 and the call of line 189.  The order in which a set yields
\* its elements is a property of the run; it is fixed here.
SearchInit ==
    /\ pc = "gen_type"
    /\ NextType(m) \notin PolygonTypes
    /\ curr_seq' = <<>>
    /\ remaining_polygon_types' = 3..8
    /\ stack' = <<NewFrame(<<>>, 3..8)>>
    /\ type_order' \in {"asc", "desc"}
    /\ choice_order' \in {"asc", "desc"}
    /\ pc' = "search"
    /\ UNCHANGED <<genVars, ret, revisits, qVars>>

\* lines 160-163: the sequence is complete, return the closing test
SeqComplete ==
    /\ At("entry")
    /\ Len(curr_seq) = Cardinality(DOMAIN figurate_numbers)
    /\ Return(Closes(curr_seq))
    /\ UNCHANGED <<pc, genVars, curr_seq, remaining_polygon_types, orderVars, revisits, qVars>>

\* lines 167-168: bind ts and create its iterator
StartLoop ==
    /\ At("entry")
    /\ Len(curr_seq) # Cardinality(DOMAIN figurate_numbers)
    /\ LET alias == IF Len(curr_seq) = 0 THEN "seed" ELSE "remaining"
           f     == [Top EXCEPT !.ts = alias]
       IN  stack' = SetTop([f EXCEPT !.fpc = "for_t",
                                     !.si_used = Cardinality(TsSet(f))])
    /\ UNCHANGED <<pc, genVars, curr_seq, remaining_polygon_types, ret, orderVars, revisits, qVars>>

\* the iterator of line 168 finds the size of its set changed
SizeChanged(f) == Cardinality(TsSet(f)) # f.si_used

\* lines 168-172: the iterator yields t, choices is bound.  The body discards
\* and re-adds elements of the set it iterates, so a type already yielded may
\* be yielded again (the re-added element can land behind the iterator).
ForT ==
    /\ At("for_t")
    /\ IF SizeChanged(Top)
         THEN /\ pc' = "RuntimeError"
              /\ UNCHANGED <<figurate_numbers, stack, revisits>>
         ELSE /\ \E t \in TsSet(Top) :
                   /\ \/ /\ TsSet(Top) \ Top.visited # {}
                         /\ t = FirstType(TsSet(Top) \ Top.visited)
                         /\ revisits' = revisits
                      \/ /\ t \in Top.visited
                         /\ revisits < MaxRevisit
                         /\ revisits' = revisits + 1
                   /\ figurate_numbers' = AfterLookup(figurate_numbers, curr_seq, t)
                   /\ stack' = SetTop([Top EXCEPT
                                          !.fpc = "discard",
                                          !.t = t,
                                          !.visited = @ \cup {t},
                                          !.choices = Choices(figurate_numbers, curr_seq, t),
                                          !.tried = {}])
              /\ pc' = pc
    /\ UNCHANGED <<m, n, n_max, curr_seq, remaining_polygon_types, ret, orderVars, qVars>>

\* line 174
Discard ==
    /\ At("discard")
    /\ remaining_polygon_types' = AfterDiscard(remaining_polygon_types, Top.t)
    /\ stack' = SetTop([Top EXCEPT !.fpc = "for_choice"])
    /\ UNCHANGED <<pc, genVars, curr_seq, ret, orderVars, revisits, qVars>>

\* lines 175-176: the next candidate is appended
NextChoice ==
    /\ At("for_choice")
    /\ Top.choices \ Top.tried # {}
    /\ LET choice == FirstChoice(Top.choices \ Top.tried)
       IN  /\ curr_seq' = AfterAppend(curr_seq, choice)
           /\ stack' = SetTop([Top EXCEPT !.fpc = "call", !.tried = @ \cup {choice}])
    /\ UNCHANGED <<pc, genVars, remaining_polygon_types, ret, orderVars, revisits, qVars>>

\* line 177: the recursive call
Call ==
    /\ At("call")
    /\ stack' = Append(SetTop([Top EXCEPT !.fpc = "after_call"]),
                       NewFrame(curr_seq, remaining_polygon_types))
    /\ UNCHANGED <<pc, genVars, curr_seq, remaining_polygon_types, ret, orderVars, revisits, qVars>>

\* lines 177-178: the call returned True
Found ==
    /\ At("after_call")
    /\ ret = TRUE
    /\ Return(TRUE)
    /\ UNCHANGED <<pc, genVars, curr_seq, remaining_polygon_types, orderVars, revisits, qVars>>

\* lines 179-180: the call returned False
Backtrack ==
    /\ At("after_call")
    /\ ret = FALSE
    /\ curr_seq' = AfterPop(curr_seq)
    /\ stack' = SetTop([Top EXCEPT !.fpc = "for_choice"])
    /\ UNCHANGED <<pc, genVars, remaining_polygon_types, ret, orderVars, revisits, qVars>>

\* line 175 exhausted, line 183
Add ==
    /\ At("for_choice")
    /\ Top.choices \ Top.tried = {}
    /\ remaining_polygon_types' = AfterAdd(remaining_polygon_types, Top.t)
    /\ stack' = SetTop([Top EXCEPT !.fpc = "for_t"])
    /\ UNCHANGED <<pc, genVars, curr_seq, ret, orderVars, revisits, qVars>>

\* line 168 exhausted, line 186
ReturnFalse ==
    /\ At("for_t")
    /\ ~SizeChanged(Top)
    /\ TsSet(Top) \ Top.visited = {}
    /\ Return(FALSE)
    /\ UNCHANGED <<pc, genVars, curr_seq, remaining_polygon_types, orderVars, revisits, qVars>>

\* lines 189-191: assert search_seqs(); return curr_seq
AssertFound ==
    /\ pc = "search"
    /\ stack = <<>>
    /\ pc' = IF ret THEN "done" ELSE "AssertionError"
    /\ UNCHANGED <<genVars, searchVars, orderVars, revisits, qVars>>

Next ==
    \/ GenType \/ GenNumber \/ GenTypeDone
    \/ SearchInit \/ SeqComplete \/ StartLoop \/ ForT \/ Discard \/ NextChoice
    \/ Call \/ Found \/ Backtrack \/ Add \/ ReturnFalse \/ AssertFound

Spec == Init /\ [][Next]_vars

----------------------------------------------------------------------------
(* Stand-alone calls of the quadratic helpers, arguments in halves *)

QInputs ==
    {q \in [a : 1..MaxQA, b : (-MaxQB)..MaxQB,
            c : ((-MaxQC)..MaxQC) \cup {-(2 * x_lower_bound), -(2 * x_upper_bound)},
            f : {"args"}] :
        Disc4(q.a, q.b, q.c) >= 0}

InitQ ==
    /\ pc = "helper"
    /\ figurate_numbers = EmptyDict
    /\ m = 0
    /\ n = 0
    /\ n_max = 0
    /\ curr_seq = <<>>
    /\ remaining_polygon_types = {}
    /\ stack = <<>>
    /\ ret = FALSE
    /\ type_order = "none"
    /\ choice_order = "none"
    /\ revisits = 0
    /\ q_in \in QInputs
    /\ q_out = 0

\* lines 54-76
CallLowerLimit ==
    /\ pc = "helper"
    /\ q_in.f = "args"
    /\ q_out' = quadratic_lower_limit(q_in.a, q_in.b, q_in.c)
    /\ q_in' = [q_in EXCEPT !.f = "lower"]
    /\ UNCHANGED <<pc, genVars, searchVars, orderVars, revisits>>

\* lines 79-101
CallUpperLimit ==
    /\ pc = "helper"
    /\ q_in.f = "args"
    /\ q_out' = quadratic_upper_limit(q_in.a, q_in.b, q_in.c)
    /\ q_in' = [q_in EXCEPT !.f = "upper"]
    /\ UNCHANGED <<pc, genVars, searchVars, orderVars, revisits>>

NextQ == CallLowerLimit \/ CallUpperLimit

SpecQ == InitQ /\ [][NextQ]_vars

----------------------------------------------------------------------------
(* Vocabulary of the properties *)

Range(seq) == {seq[i] : i \in 1..Len(seq)}

TypesOf(seq) == {seq[i][2] : i \in 1..Len(seq)}

FirstTwoDigits(x) == x \div 100

LastTwoDigits(x) == x % 100

FourDigit(x) == 1000 <= x /\ x <= 9999

\* the following element of a cyclic sequence
Succ(seq, i) == seq[(i % Len(seq)) + 1]

Returned == pc = "done"

RECURSIVE SeqSum(_)
\* line 200: sum(map(lambda cf: cf[0], seq))
SeqSum(seq) == IF seq = <<>> THEN 0 ELSE seq[1][1] + SeqSum(Tail(seq))

\* a*k**2 + b*k of type t as an exact number of halves
Halves(t, k) ==
    FIGURATE_QUADRATIC_PARAMETERS[t][1] * k * k + FIGURATE_QUADRATIC_PARAMETERS[t][2] * k

\* the indices whose value lies in [1000, 9999], by scanning 1..BruteMax
BruteIndices(t) ==
    {k \in 1..BruteMax : 2 * 1000 <= Halves(t, k) /\ Halves(t, k) <= 2 * 9999}

\* every number stored for type t
Stored(t) == UnionValues(figurate_numbers[t])

\* the chains of k stored numbers that start with an octagonal number, use
\* distinct types and are linked from each element to the next
RECURSIVE Chains(_)
Chains(k) ==
    IF k = 1 THEN {<<e>> : e \in Stored(8)}
    ELSE UNION { {Append(c, e) :
                     e \in {g \in UNION {Stored(t) : t \in PolygonTypes \ TypesOf(c)} :
                              FirstTwoDigits(g[1]) = LastTwoDigits(c[k - 1][1])}} :
                 c \in Chains(k - 1) }

\* the chains of six that also close
AllCycles ==
    {c \in Chains(6) : FourDigit(c[6][1]) /\ LastTwoDigits(c[6][1]) = FirstTwoDigits(c[1][1])}

----------------------------------------------------------------------------
(* Properties *)

\* C1: in the sequence main() returns, every element's last two digits are
\* the first two digits of the element after it, the first element following
\* the last; this is so for every iteration order of the run.
C1_CycleValid ==
    Returned =>
        /\ Len(curr_seq) = 6
        /\ \A i \in 1..6 :
              /\ FourDigit(curr_seq[i][1])
              /\ LastTwoDigits(curr_seq[i][1]) = FirstTwoDigits(Succ(curr_seq, i)[1])

C1_Witness ==
    /\ Returned
    /\ Len(curr_seq) = 6
    /\ type_order = "desc"
    /\ choice_order = "desc"

\* C2: the returned sequence has six elements whose polygon types are
\* exactly 3..8, each once, and remaining_polygon_types is empty.
C2_TypeCoverage ==
    Returned =>
        /\ Len(curr_seq) = 6
        /\ TypesOf(curr_seq) = 3..8
        /\ \A i, j \in 1..Len(curr_seq) : curr_seq[i][2] = curr_seq[j][2] => i = j
        /\ remaining_polygon_types = {}

C2_Witness ==
    /\ Returned
    /\ remaining_polygon_types = {}
    /\ Cardinality(TypesOf(curr_seq)) = 6

\* C3: the run never fails the assertion of line 189 (nor raises from the
\* loop over the set it mutates), and the values of the sequence it returns
\* sum to 28684.
C3_Sum ==
    /\ pc \notin {"AssertionError", "RuntimeError"}
    /\ Returned => SeqSum(curr_seq) = 28684

C3_Witness ==
    /\ Returned
    /\ ret = TRUE
    /\ SeqSum(curr_seq) = 28684

\* C4 as stated: the returned sequence contains P[3,127] = 8128,
\* P[5,44] = 2882 and P[4,91] = 8281, and one number each of types 6, 7, 8.
C4_Original ==
    Returned =>
        /\ {<<8128, 3, 127>>, <<2882, 5, 44>>, <<8281, 4, 91>>} \subseteq Range(curr_seq)
        /\ TypesOf(curr_seq) \ {3, 4, 5} = {6, 7, 8}

\* C4 amended: the returned sequence contains P[5,44] = 2882; it contains
\* 8128 as the hexagonal P[6,64], not as the triangular P[3,127]; it does not
\* contain 8281: its triangular element is P[3,128] = 8256 and its square
\* element is P[4,75] = 5625; the other two are one heptagonal and one
\* octagonal number.
C4_Amended ==
    Returned =>
        /\ {<<2882, 5, 44>>, <<8128, 6, 64>>, <<8256, 3, 128>>, <<5625, 4, 75>>}
              \subseteq Range(curr_seq)
        /\ <<8128, 3, 127>> \notin Range(curr_seq)
        /\ \A i \in 1..Len(curr_seq) : curr_seq[i][1] # 8281
        /\ Len(curr_seq) = 6
        /\ TypesOf(curr_seq) \ {3, 4, 5, 6} = {7, 8}

C4_Witness ==
    /\ Returned
    /\ <<8128, 6, 64>> \in Range(curr_seq)
    /\ <<2882, 5, 44>> \in Range(curr_seq)

\* C5 as stated: once the generator has finished a polygon type, the
\* indices stored for it are exactly the indices whose value lies in
\* [1000, 9999], and every stored value lies in [1000, 9999].
C5_GeneratorExact ==
    \A t \in DOMAIN figurate_numbers :
        (t < m \/ pc # "gen_n") =>
            /\ {e[3] : e \in Stored(t)} = BruteIndices(t)
            /\ \A e \in Stored(t) : FourDigit(e[1])

\* C6 as stated: quadratic_upper_limit returns r with a*r^2 + b*r + c >= 0
\* and a*(r-1)^2 + b*(r-1) + c < 0.
C6_UpperLimit ==
    q_in.f = "upper" =>
        /\ q_in.a * q_out * q_out + q_in.b * q_out + q_in.c >= 0
        /\ q_in.a * (q_out - 1) * (q_out - 1) + q_in.b * (q_out - 1) + q_in.c < 0

\* C7: among the generated numbers there is exactly one sequence of six that
\* starts with an octagonal number, uses each polygon type once and has all
\* six cyclic links, and main() returns it in every iteration order.
C7_Unique ==
    Returned =>
        /\ Cardinality(AllCycles) = 1
        /\ curr_seq \in AllCycles

C7_Witness ==
    /\ Returned
    /\ curr_seq[1][2] = 8
    /\ type_order = "asc"

\* C8 as stated: at every point of the search len(curr_seq) +
\* len(remaining_polygon_types) = 6 and the types in curr_seq are exactly
\* those not in remaining_polygon_types, each at most once.
C8_Original ==
    pc = "search" =>
        /\ Len(curr_seq) + Cardinality(remaining_polygon_types) = 6
        /\ TypesOf(curr_seq) = 3..8 \ remaining_polygon_types
        /\ Cardinality(TypesOf(curr_seq)) = Len(curr_seq)

\* the search is between discard(t) and append, or between pop and add(t)
TypeTakenOut == Searching /\ Top.fpc = "for_choice"

\* C8 amended: the invariant holds at every point of the search except
\* while a type t is discarded and no candidate of it is appended (from
\* discard(t) to the next append, from each pop() to the next append or to
\* add(t), which includes an empty candidate pool); there t is in neither
\* collection: the lengths sum to 5 and the types in curr_seq are exactly
\* {3..8} minus remaining_polygon_types minus {t}.  Each type is in curr_seq
\* at most once at every point.
C8_Amended ==
    pc \in {"search", "done", "AssertionError"} =>
        /\ Cardinality(TypesOf(curr_seq)) = Len(curr_seq)
        /\ IF TypeTakenOut
             THEN /\ Len(curr_seq) + Cardinality(remaining_polygon_types) = 5
                  /\ Top.t \notin remaining_polygon_types
                  /\ TypesOf(curr_seq) = (3..8 \ remaining_polygon_types) \ {Top.t}
             ELSE /\ Len(curr_seq) + Cardinality(remaining_polygon_types) = 6
                  /\ TypesOf(curr_seq) = 3..8 \ remaining_polygon_types

C8_Witness ==
    /\ TypeTakenOut
    /\ Top.choices = {}
    /\ Len(curr_seq) = 3

\* C9 as stated: no step of the search changes figurate_numbers.
C9_ReadOnly == [][pc = "search" => figurate_numbers' = figurate_numbers]_vars

\* C10: a call of search_seqs that returns False leaves curr_seq and
\* remaining_polygon_types as they were when it was entered; a call that
\* returns True leaves the complete sequence in place.
C10_Lifo ==
    [][(Searching /\ Len(stack') < Len(stack)) =>
          IF ret' = FALSE
            THEN /\ curr_seq' = Top.entry_seq
                 /\ remaining_polygon_types' = Top.entry_rem
            ELSE /\ Len(curr_seq') = 6
                 /\ remaining_polygon_types' = {}
                 /\ SubSeq(curr_seq', 1, Len(Top.entry_seq)) = Top.entry_seq
                 /\ TypesOf(curr_seq') = TypesOf(Top.entry_seq) \cup Top.entry_rem]_vars

C10_Witness ==
    /\ At("for_t")
    /\ Len(stack) = 3
    /\ TsSet(Top) \ Top.visited = {}
    /\ Top.tried # {}

====
